---- MODULE Spec2Model ----
(***************************************************************************)
(* A model of the theater seat monitoring bot (src/main.py).               *)
(*                                                                         *)
(* The state is the TheaterBot object (monitored_shows, monitoring_tasks), *)
(* the TOML store file, the asyncio tasks running monitor_show (their      *)
(* position, the future they wait for, their locals) and the conversation  *)
(* state kept in context.user_data for every chat.                         *)
(*                                                                         *)
(* Python values: None is the empty tuple <<>> and an int n is <<n>> where *)
(* a field is Optional; strings are strings.  A subscription key           *)
(* f"{chat_id}_{theater_id}" is the pair <<chat_id, theater_id>>: the      *)
(* theater id is a run of digits (extract_theater_id) and callbacks split  *)
(* at the first underscore, so the text and the pair name each other.      *)
(***************************************************************************)
EXTENDS Integers, Sequences, FiniteSets, TLC

VARIABLES
    monitored_shows,   \* TheaterBot.monitored_shows: key -> MonitoredShow
    monitoring_tasks,  \* TheaterBot.monitoring_tasks: key -> task id
    db_file,           \* the content of theater_bot_db.toml
    tasks,             \* the asyncio tasks: task id -> coroutine state
    user_state,        \* context.user_data['state'] of every chat
    call               \* a call of a method examined on its own: its
                       \* arguments and, once made, its result

vars == <<monitored_shows, monitoring_tasks, db_file, tasks, user_state, call>>

----------------------------------------------------------------------------
(* Bounds and input sets *)

\* The number of Task objects alive at once (a finished task that nothing
\* references any more gives its slot back).
MaxTasks == 2

Tids == 1..MaxTasks

Chats == {1}

Theaters == {"7"}

DEFAULT_MIN_SEATS == 2

Keys == Chats \X Theaters

None == <<>>

Some(x) == <<x>>

----------------------------------------------------------------------------
(* Labels: str.isdigit, int(), and the order of str *)

\* The seat and row labels and the numeric texts a user types.
IntTable ==
    ("0" :> 0) @@ ("1" :> 1) @@ ("2" :> 2) @@ ("3" :> 3) @@ ("4" :> 4) @@
    ("9" :> 9) @@ ("02" :> 2) @@ ("10" :> 10) @@ ("11" :> 11) @@
    ("-1" :> (0 - 1))

\* int(s) succeeds
IntParsable(s) == s \in DOMAIN IntTable

IntOf(s) == IntTable[s]

\* s.isdigit(): digits only, at least one.  "sup2" stands for the one
\* character SUPERSCRIPT TWO, a digit to str.isdigit that int() does not read.
IsDigit(s) ==
    s \in {"0", "1", "2", "3", "4", "9", "02", "10", "11", "sup2"}

\* Python's < on str (code points, lexicographic) over the labels in use.
StrRank ==
    ("-1" :> 1) @@ ("0" :> 2) @@ ("02" :> 3) @@ ("1" :> 4) @@ ("10" :> 5) @@
    ("11" :> 6) @@ ("2" :> 7) @@ ("3" :> 8) @@ ("4" :> 9) @@ ("9" :> 10) @@
    ("A" :> 11) @@ ("B" :> 12) @@ ("abc" :> 13)

StrLess(a, b) == StrRank[a] < StrRank[b]

----------------------------------------------------------------------------
(* parse_seats_from_html *)

\* A document is a sequence of tokens in document order: the opening of an
\* anchor, an attribute with its value, the closing of an anchor.
Open == [t |-> "open", v |-> ""]

Close == [t |-> "close", v |-> ""]

Attr(name, value) == [t |-> name, v |-> value]

\* An anchor as the venue writes it: class, data-chair, data-row.
Anchor(class, chair, row) ==
    <<Open, Attr("class", class), Attr("data-chair", chair),
      Attr("data-row", row), Close>>

\* The first position >= i of a token of kind t in doc, 0 when there is none.
FirstAt(doc, t, i) ==
    LET hits == {j \in i..Len(doc) : doc[j].t = t}
    IN  IF hits = {} THEN 0 ELSE CHOOSE j \in hits : \A k \in hits : j <= k

\* 'taken' in class_attr
ContainsTaken(class) == class \in {"taken", "seat taken", "chair taken vip"}

Seat(row, chair, status) == [row |-> row, chair |-> chair, status |-> status]

\* re.findall of <a.*?class="(.*?)".*?data-chair="(.*?)".*?data-row="(.*?)".*?</a>
\* with DOTALL: from the next "<a", lazily the first class after it, the
\* first data-chair after that, the first data-row after that and the first
\* "</a>" after that, whatever lies in between; the scan goes on after it.
RECURSIVE FindAll(_, _)
FindAll(doc, i) ==
    LET o == FirstAt(doc, "open", i)
        c == IF o = 0 THEN 0 ELSE FirstAt(doc, "class", o + 1)
        h == IF c = 0 THEN 0 ELSE FirstAt(doc, "data-chair", c + 1)
        r == IF h = 0 THEN 0 ELSE FirstAt(doc, "data-row", h + 1)
        e == IF r = 0 THEN 0 ELSE FirstAt(doc, "close", r + 1)
    IN  IF e = 0 THEN <<>>
        ELSE <<Seat(doc[r].v, doc[h].v,
                    IF ContainsTaken(doc[c].v) THEN "taken" ELSE "available")>>
             \o FindAll(doc, e + 1)

parse_seats_from_html(html_content) == FindAll(html_content, 1)

----------------------------------------------------------------------------
(* find_adjacent_seats *)

Raised(name) == [raised |-> name, groups |-> <<>>]

Returned(groups) == [raised |-> "", groups |-> groups]

\* The rows of seats in the order they are first met (dict insertion order).
RECURSIVE RowOrder(_)
RowOrder(seats) ==
    IF seats = <<>> THEN <<>>
    ELSE LET init == RowOrder(SubSeq(seats, 1, Len(seats) - 1))
             row  == seats[Len(seats)].row
         IN  IF \E i \in 1..Len(init) : init[i] = row THEN init
             ELSE Append(init, row)

\* A sort of the row by the chair labels as texts.
KeyLessText(a, b) == StrLess(a.chair, b.chair)

\* key=lambda s: int(s.chair) if s.chair.isdigit() else s.chair
KeyLess(a, b) ==
    IF IsDigit(a.chair) THEN IntOf(a.chair) < IntOf(b.chair)
    ELSE StrLess(a.chair, b.chair)

\* list.sort is stable: a seat goes after every seat that is not greater.
RECURSIVE SortRow(_)
SortRow(row_seats) ==
    IF row_seats = <<>> THEN <<>>
    ELSE LET init == SortRow(SubSeq(row_seats, 1, Len(row_seats) - 1))
             x    == row_seats[Len(row_seats)]
             n    == Cardinality({i \in 1..Len(init) : ~KeyLess(x, init[i])})
         IN  SubSeq(init, 1, n) \o <<x>> \o SubSeq(init, n + 1, Len(init))

\* Comparing an int key with a str key raises TypeError, and a sort of two or
\* more keys of both kinds makes such a comparison.
SortRaises(row_seats) ==
    /\ \E i \in 1..Len(row_seats) : IsDigit(row_seats[i].chair)
    /\ \E i \in 1..Len(row_seats) : ~IsDigit(row_seats[i].chair)

Group(row, current_sequence) ==
    [row         |-> row,
     start_chair |-> current_sequence[1].chair,
     end_chair   |-> current_sequence[Len(current_sequence)].chair,
     count       |-> Len(current_sequence)]

IsConsecutive(current_seat, previous_seat) ==
    /\ IntParsable(current_seat.chair)
    /\ IntParsable(previous_seat.chair)
    /\ IntOf(current_seat.chair) = IntOf(previous_seat.chair) + 1

\* The loop over range(1, len(row_seats)) and the last sequence.
RECURSIVE ScanRow(_, _, _, _, _)
ScanRow(row, row_seats, i, current_sequence, min_seats) ==
    IF i > Len(row_seats)
    THEN IF Len(current_sequence) >= min_seats
         THEN <<Group(row, current_sequence)>> ELSE <<>>
    ELSE IF IsConsecutive(row_seats[i], current_sequence[Len(current_sequence)])
         THEN ScanRow(row, row_seats, i + 1,
                      Append(current_sequence, row_seats[i]), min_seats)
         ELSE (IF Len(current_sequence) >= min_seats
               THEN <<Group(row, current_sequence)>> ELSE <<>>)
              \o ScanRow(row, row_seats, i + 1, <<row_seats[i]>>, min_seats)

RowGroups(row, row_seats, min_seats) ==
    IF Len(row_seats) < min_seats THEN <<>>
    ELSE ScanRow(row, row_seats, 2, <<row_seats[1]>>, min_seats)

RECURSIVE AllRowGroups(_, _, _, _)
AllRowGroups(seats, rows, i, min_seats) ==
    IF i > Len(rows) THEN <<>>
    ELSE RowGroups(rows[i],
                   SortRow(SelectSeq(seats, LAMBDA s : s.row = rows[i])),
                   min_seats)
         \o AllRowGroups(seats, rows, i + 1, min_seats)

\* The max_row filter: int(s.row) raises ValueError on a row that is no
\* integer; the handler of it reads s, the comprehension's own variable,
\* which the function does not have: NameError.
RowFilterRaises(seats, max_row) ==
    /\ max_row # None
    /\ \E i \in 1..Len(seats) : ~IntParsable(seats[i].row)

RowFilter(seats, max_row) ==
    IF max_row = None THEN seats
    ELSE SelectSeq(seats, LAMBDA s : IntOf(s.row) <= max_row[1])

find_adjacent_seats(seats, min_seats, max_row) ==
    IF RowFilterRaises(seats, max_row) THEN Raised("NameError")
    ELSE LET kept == RowFilter(seats, max_row)
             rows == RowOrder(kept)
         IN  IF \E i \in 1..Len(rows) :
                    SortRaises(SelectSeq(kept, LAMBDA s : s.row = rows[i]))
             THEN Raised("TypeError")
             ELSE Returned(AllRowGroups(kept, rows, 1, min_seats))

----------------------------------------------------------------------------
(* _compare_groups *)

\* A key that tells groups of the same chairs apart by their count.
GroupKeyCounted(group) ==
    <<group.row, group.start_chair, group.end_chair, group.count>>

GroupKey(group) == <<group.row, group.start_chair, group.end_chair>>

compare_groups(old_groups, new_groups) ==
    LET old_group_keys == {GroupKey(old_groups[i]) : i \in 1..Len(old_groups)}
    IN  SelectSeq(new_groups, LAMBDA g : GroupKey(g) \notin old_group_keys)

----------------------------------------------------------------------------
(* The store: save_db and load_db *)

EmptyMap == [k \in {} |-> <<>>]

\* datetime.now().isoformat(): the clock is one abstract instant.
Now == "now"

\* A show that takes over the last groups of the show on record for its
\* chat and theater.
MonitoredShowCarried(chat_id, theater_id, min_seats, max_row) ==
    [chat_id               |-> chat_id,
     theater_id            |-> theater_id,
     min_seats             |-> min_seats,
     created_at            |-> Now,
     last_available_groups |->
         IF <<chat_id, theater_id>> \in DOMAIN monitored_shows
         THEN monitored_shows[<<chat_id, theater_id>>].last_available_groups
         ELSE <<>>,
     max_row               |-> max_row]

MonitoredShow(chat_id, theater_id, min_seats, max_row) ==
    [chat_id               |-> chat_id,
     theater_id            |-> theater_id,
     min_seats             |-> min_seats,
     created_at            |-> Now,
     last_available_groups |-> <<>>,
     max_row               |-> max_row]

\* A dump that writes 0 for the ceiling a show does not have.
DumpShowZero(show) ==
    [chat_id               |-> show.chat_id,
     theater_id            |-> show.theater_id,
     min_seats             |-> show.min_seats,
     created_at            |-> show.created_at,
     last_available_groups |-> show.last_available_groups,
     max_row               |-> IF show.max_row = None THEN 0
                               ELSE show.max_row[1]]

\* One table of the TOML file.  toml.dump writes no key for a None value.
DumpShow(show) ==
    LET fields == [chat_id               |-> show.chat_id,
                   theater_id            |-> show.theater_id,
                   min_seats             |-> show.min_seats,
                   created_at            |-> show.created_at,
                   last_available_groups |-> show.last_available_groups]
    IN  IF show.max_row = None THEN fields
        ELSE fields @@ [max_row |-> show.max_row[1]]

\* value['chat_id'] ..., value.get('last_available_groups', []),
\* value.get('max_row')
LoadShow(value) ==
    [chat_id               |-> value.chat_id,
     theater_id            |-> value.theater_id,
     min_seats             |-> value.min_seats,
     created_at            |-> value.created_at,
     last_available_groups |->
         IF "last_available_groups" \in DOMAIN value
         THEN value.last_available_groups ELSE <<>>,
     max_row               |->
         IF "max_row" \in DOMAIN value THEN Some(value.max_row) ELSE None]

RequiredFields == {"chat_id", "theater_id", "min_seats", "created_at"}

AbsentFile == [kind |-> "absent", data |-> EmptyMap]

TomlFile(data) == [kind |-> "toml", data |-> data]

\* A file that is no TOML.
CorruptFile == [kind |-> "corrupt", data |-> EmptyMap]

\* A save that writes every show as it was created, without its last groups.
SaveAsCreated(shows) ==
    TomlFile([k \in DOMAIN shows |->
                 DumpShow([shows[k] EXCEPT !.last_available_groups = <<>>])])

\* The file after save_db wrote the whole mapping.
save_db(shows) == TomlFile([k \in DOMAIN shows |-> DumpShow(shows[k])])

\* load_db raises inside its try when the file does not parse or a table
\* lacks a required key.
LoadRaises(file) ==
    \/ file.kind = "corrupt"
    \/ /\ file.kind = "toml"
       /\ \E k \in DOMAIN file.data : ~(RequiredFields \subseteq DOMAIN file.data[k])

\* The value of call while every write of the store fails (a full or
\* read-only disk).
WriteFails == <<"OSError">>

\* A save_db without its except clause: the failure of the write leaves
\* save_db and the operation that called it never gets past the call.
WriteRaises(shows) ==
    IF call = WriteFails THEN {} ELSE {save_db(shows)}

\* The file self.save_db() leaves.  An exception of open or of toml.dump is
\* caught and logged in save_db: the file is then as it was (open failed)
\* or empty (truncated by open, nothing written).
Written(shows) ==
    IF call = WriteFails THEN {db_file, TomlFile(EmptyMap)}
    ELSE {save_db(shows)}

\* The mapping load_db returns.
load_db(file) ==
    IF file.kind = "absent" \/ LoadRaises(file) THEN EmptyMap
    ELSE [k \in DOMAIN file.data |-> LoadShow(file.data[k])]

\* A load that leaves the file it could not read where it is.
FileKept(file) == file

\* The file load_db leaves: a file it could not read is removed.
FileAfterLoad(file) ==
    IF file.kind # "absent" /\ LoadRaises(file) THEN AbsentFile ELSE file

----------------------------------------------------------------------------
(* asyncio tasks *)

\* What the future a task awaits holds.
Result(kind) == [kind |-> kind, doc |-> <<>>]

NoResult == Result("none")

Pending == Result("pending")

Cancelled == Result("cancelled")

Response(doc) == [kind |-> "doc", doc |-> doc]

FreeTask ==
    [pc |-> "free", key |-> <<>>, theater_id |-> "", min_seats |-> 0,
     chat_id |-> 0, result |-> NoResult, adjacent_groups |-> <<>>,
     message |-> None, exit |-> ""]

\* asyncio.create_task(self.monitor_show(theater_id, min_seats, chat_id, key))
NewTask(theater_id, min_seats, chat_id, key) ==
    [FreeTask EXCEPT !.pc = "created", !.key = key, !.theater_id = theater_id,
                     !.min_seats = min_seats, !.chat_id = chat_id]

\* The coroutine has returned: exit says through which branch of monitor_show
\* ("cancelled", "error", or "unsubscribed" when the loop condition failed).
\* Its frame, arguments and locals, is gone.
Finished(task, exit) ==
    [FreeTask EXCEPT !.pc = "done", !.key = task.key, !.exit = exit]

\* A task that has not returned.
Live(task) == task.pc \in {"created", "fetch", "notify", "sleep"}

\* A cancel() that never reaches the coroutine: the task runs on as it was.
CancelUnheard(task) == task

\* Task.cancel(): nothing on a finished task; otherwise the awaited future is
\* cancelled (or the task marked) and the next step of the coroutine gets
\* CancelledError thrown in; the arguments and locals of the frame are read
\* no more (the handler of CancelledError only logs).
Cancel(task) ==
    IF Live(task)
    THEN [FreeTask EXCEPT !.pc = task.pc, !.key = task.key, !.result = Cancelled]
    ELSE task

\* The slots a new Task object can take once registry holds the tasks still
\* referenced.
FreeSlots(ts, registry) ==
    {t \in Tids : /\ ts[t].pc \in {"free", "done"}
                  /\ \A k \in DOMAIN registry : registry[k] # t}

\* A Task object lives while it runs or the registry refers to it: a task
\* that has returned and that no key of registry names is collected.
Collect(ts, registry) ==
    [t \in Tids |->
        IF ts[t].pc = "done" /\ \A k \in DOMAIN registry : registry[k] # t
        THEN FreeTask ELSE ts[t]]

Restrict(f, S) == [k \in S |-> f[k]]

Put(f, k, v) == [x \in DOMAIN f \cup {k} |-> IF x = k THEN v ELSE f[x]]

Remove(f, k) == Restrict(f, DOMAIN f \ {k})

\* start_monitoring_task: cancel the registered task, create the new one,
\* register it.  No await lies between the three.
CanStartTask(key) ==
    FreeSlots(tasks, Remove(monitoring_tasks, key)) # {}

StartedTasks(key, theater_id, min_seats, chat_id) ==
    LET cancelled == IF key \in DOMAIN monitoring_tasks
                     THEN [tasks EXCEPT ![monitoring_tasks[key]] = Cancel(@)]
                     ELSE tasks
        slots == FreeSlots(cancelled, Remove(monitoring_tasks, key))
        task  == CHOOSE t \in slots : \A u \in slots : t <= u
        registry == Put(monitoring_tasks, key, task)
    IN  [tasks    |-> Collect([cancelled EXCEPT ![task] =
                                  NewTask(theater_id, min_seats, chat_id, key)],
                              registry),
         registry |-> registry]

start_monitoring_task(key, theater_id, min_seats, chat_id) ==
    LET started == StartedTasks(key, theater_id, min_seats, chat_id)
    IN  /\ tasks' = started.tasks
        /\ monitoring_tasks' = started.registry

\* A stop that forgets the task without cancelling it.
ForgetTask(key) ==
    IF key \in DOMAIN monitoring_tasks
    THEN /\ tasks' = tasks
         /\ monitoring_tasks' = Remove(monitoring_tasks, key)
    ELSE UNCHANGED <<tasks, monitoring_tasks>>

\* A stop that cancels the task and leaves it in the registry.
StopLeavesRegistered(key) ==
    IF key \in DOMAIN monitoring_tasks
    THEN /\ tasks' = [tasks EXCEPT ![monitoring_tasks[key]] = Cancel(@)]
         /\ monitoring_tasks' = monitoring_tasks
    ELSE UNCHANGED <<tasks, monitoring_tasks>>

\* stop_monitoring_task
stop_monitoring_task(key) ==
    IF key \in DOMAIN monitoring_tasks
    THEN /\ tasks' = Collect([tasks EXCEPT ![monitoring_tasks[key]] = Cancel(@)],
                             Remove(monitoring_tasks, key))
         /\ monitoring_tasks' = Remove(monitoring_tasks, key)
    ELSE UNCHANGED <<tasks, monitoring_tasks>>

----------------------------------------------------------------------------
(* The venue and the messenger, as the tasks see them *)

\* Every seat of row 1 is taken.
DocSoldOut == Anchor("seat taken", "1", "1") \o Anchor("seat taken", "2", "1")

\* Row 1: seats 1 and 2 free, seat 3 taken; a box named A with one free seat.
DocRow1A ==
    Anchor("seat", "1", "1") \o Anchor("seat", "2", "1")
    \o Anchor("seat taken", "3", "1") \o Anchor("seat", "1", "A")

\* Rows 1 and 3: seats 1 and 2 free in each.
DocRows13 ==
    Anchor("seat", "1", "1") \o Anchor("seat", "2", "1")
    \o Anchor("seat", "1", "3") \o Anchor("seat", "2", "3")

Docs == {DocSoldOut, DocRow1A, DocRows13}

\* What the POST of fetch_and_parse_chairmap ends with: a page, an
\* aiohttp.ClientError, or an exception of another class (a timeout, a body
\* that does not decode).
FetchOutcomes ==
    {Response(d) : d \in Docs} \cup {Result("ClientError"), Result("OtherError")}

\* What bot.send_message ends with.
NotifyOutcomes == {Result("sent"), Result("SendError")}

\* A fetch with no except clause: every exception of the POST leaves it.
FetchUnguarded(result) ==
    IF result.kind = "doc"
    THEN [raised |-> "",
          seats  |-> SelectSeq(parse_seats_from_html(result.doc),
                               LAMBDA s : s.status = "available")]
    ELSE [raised |-> result.kind, seats |-> <<>>]

\* fetch_and_parse_chairmap, from the end of the POST on: the available
\* seats, [] on aiohttp.ClientError; any other exception leaves the function.
fetch_and_parse_chairmap(result) ==
    IF result.kind = "doc"
    THEN [raised |-> "",
          seats  |-> SelectSeq(parse_seats_from_html(result.doc),
                               LAMBDA s : s.status = "available")]
    ELSE IF result.kind = "ClientError"
    THEN [raised |-> "", seats |-> <<>>]
    ELSE [raised |-> result.kind, seats |-> <<>>]

\* The text of a notification: the numbered new groups and the total.
NotifyLine(i, group) ==
    [n |-> i, count |-> group.count, row |-> group.row,
     start_chair |-> group.start_chair, end_chair |-> group.end_chair]

\* A message whose total counts the new groups only.
NotifyMessageNewOnly(chat_id, theater_id, new_groups, adjacent_groups) ==
    [chat_id    |-> chat_id,
     theater_id |-> theater_id,
     lines      |-> [i \in 1..Len(new_groups) |-> NotifyLine(i, new_groups[i])],
     total      |-> Len(new_groups)]

NotifyMessage(chat_id, theater_id, new_groups, adjacent_groups) ==
    [chat_id    |-> chat_id,
     theater_id |-> theater_id,
     lines      |-> [i \in 1..Len(new_groups) |-> NotifyLine(i, new_groups[i])],
     total      |-> Len(adjacent_groups)]

----------------------------------------------------------------------------
(* monitor_show, one step of the coroutine at a time *)

\* while key in self.monitored_shows and self.monitored_shows[key].chat_id == chat_id
LoopCondition(task) ==
    /\ task.key \in DOMAIN monitored_shows
    /\ monitored_shows[task.key].chat_id = task.chat_id

\* The top of the loop: into the await of the fetch, or out of the loop.
LoopHead(task) ==
    IF LoopCondition(task)
    THEN [task EXCEPT !.pc = "fetch", !.result = Pending,
                      !.adjacent_groups = <<>>, !.message = None]
    ELSE Finished(task, "unsubscribed")

Sleeping(task) ==
    [task EXCEPT !.pc = "sleep", !.result = Pending,
                 !.adjacent_groups = <<>>, !.message = None]

\* self.monitored_shows[key].last_available_groups = adjacent_groups
WithLastGroups(shows, key, adjacent_groups) ==
    [shows EXCEPT ![key].last_available_groups = adjacent_groups]

\* A send with no try around it: every exception of send_message goes on to
\* the handlers of the loop.
SendUnguarded(result) == result.kind \in {"cancelled", "SendError"}

\* Does the exception (if any) that ended send_message leave the inner try?
\* except Exception catches every failure of the send; CancelledError is no
\* Exception and is the only one to pass.
NotifyEscapes(result) == result.kind = "cancelled"

\* The first step of the task.
TaskStart(t) ==
    /\ tasks[t].pc = "created"
    /\ tasks' = Collect([tasks EXCEPT ![t] =
                            IF @.result = Cancelled THEN Finished(@, "cancelled")
                            ELSE LoopHead(@)],
                        monitoring_tasks)
    /\ UNCHANGED <<monitored_shows, monitoring_tasks, db_file, user_state, call>>

\* The POST ends.
FetchComplete(t, outcome) ==
    /\ tasks[t].pc = "fetch"
    /\ tasks[t].result = Pending
    /\ tasks' = [tasks EXCEPT ![t].result = outcome]
    /\ UNCHANGED <<monitored_shows, monitoring_tasks, db_file, user_state, call>>

\* The body of the loop from the await of the fetch to the next await.
\* [task, shows, saved]: the task after the step, the mapping, and whether
\* save_db ran.
AfterFetch(task, shows) ==
    LET fetched == fetch_and_parse_chairmap(task.result)
        key     == task.key
        found   == find_adjacent_seats(fetched.seats, task.min_seats,
                                       shows[key].max_row)
        new_groups == compare_groups(shows[key].last_available_groups,
                                     found.groups)
    IN  IF task.result = Cancelled
        THEN [task |-> Finished(task, "cancelled"), shows |-> shows,
              saved |-> FALSE]
        ELSE IF fetched.raised # ""
        THEN [task |-> Finished(task, "error"), shows |-> shows,
              saved |-> FALSE]
        ELSE IF fetched.seats = <<>>
        THEN [task |-> Sleeping(task), shows |-> shows, saved |-> FALSE]
        ELSE IF key \notin DOMAIN shows \/ found.raised # ""
        THEN [task |-> Finished(task, "error"), shows |-> shows,
              saved |-> FALSE]
        ELSE IF new_groups # <<>>
        THEN [task |-> [task EXCEPT
                          !.pc = "notify", !.result = Pending,
                          !.adjacent_groups = found.groups,
                          !.message = Some(NotifyMessage(task.chat_id,
                                              task.theater_id, new_groups,
                                              found.groups))],
              shows |-> shows, saved |-> FALSE]
        ELSE [task |-> Sleeping(task),
              shows |-> WithLastGroups(shows, key, found.groups),
              saved |-> TRUE]

ResumeFetch(t) ==
    /\ tasks[t].pc = "fetch"
    /\ tasks[t].result # Pending
    /\ LET after == AfterFetch(tasks[t], monitored_shows)
       IN  /\ tasks' = Collect([tasks EXCEPT ![t] = after.task],
                               monitoring_tasks)
           /\ monitored_shows' = after.shows
           /\ db_file' \in IF after.saved THEN Written(after.shows)
                         ELSE {db_file}
    /\ UNCHANGED <<monitoring_tasks, user_state, call>>

\* send_message ends.
NotifyComplete(t, outcome) ==
    /\ tasks[t].pc = "notify"
    /\ tasks[t].result = Pending
    /\ tasks' = [tasks EXCEPT ![t].result = outcome]
    /\ UNCHANGED <<monitored_shows, monitoring_tasks, db_file, user_state, call>>

\* From the await of send_message to the await of the sleep.
AfterNotify(task, shows) ==
    IF NotifyEscapes(task.result)
    THEN [task |-> Finished(task, IF task.result = Cancelled
                                  THEN "cancelled" ELSE "error"),
          shows |-> shows, saved |-> FALSE]
    ELSE IF task.key \notin DOMAIN shows
    THEN [task |-> Finished(task, "error"), shows |-> shows, saved |-> FALSE]
    ELSE [task |-> Sleeping(task),
          shows |-> WithLastGroups(shows, task.key, task.adjacent_groups),
          saved |-> TRUE]

ResumeNotify(t) ==
    /\ tasks[t].pc = "notify"
    /\ tasks[t].result # Pending
    /\ LET after == AfterNotify(tasks[t], monitored_shows)
       IN  /\ tasks' = Collect([tasks EXCEPT ![t] = after.task],
                               monitoring_tasks)
           /\ monitored_shows' = after.shows
           /\ db_file' \in IF after.saved THEN Written(after.shows)
                         ELSE {db_file}
    /\ UNCHANGED <<monitoring_tasks, user_state, call>>

\* asyncio.sleep(MONITORING_INTERVAL) ends, by the timer or by a cancel.
ResumeSleep(t) ==
    /\ tasks[t].pc = "sleep"
    /\ tasks' = Collect([tasks EXCEPT ![t] =
                            IF @.result = Cancelled THEN Finished(@, "cancelled")
                            ELSE LoopHead(@)],
                        monitoring_tasks)
    /\ UNCHANGED <<monitored_shows, monitoring_tasks, db_file, user_state, call>>

----------------------------------------------------------------------------
(* The conversation: context.user_data['state'] and what a user can send *)

State(tag) ==
    [tag |-> tag, temp_theater_id |-> "", waiting_for |-> "",
     temp_min_seats |-> None, key |-> <<>>]

\* user_data holds no 'state' (never set, or popped)
NoState == State("")

InitialState == State("InitialState")

FindSeatsState == State("FindSeatsState")

MonitorSetupState(temp_theater_id, waiting_for, temp_min_seats) ==
    [State("MonitorSetupState") EXCEPT
        !.temp_theater_id = temp_theater_id, !.waiting_for = waiting_for,
        !.temp_min_seats = temp_min_seats]

ChangeMaxRowState(key) == [State("ChangeMaxRowState") EXCEPT !.key = key]

\* A list of button texts that lacks Help.
ButtonCommandsShort ==
    {"Find Available Seats", "Monitor Show", "My Monitored Shows",
     "Stop Monitoring"}

button_commands ==
    {"Find Available Seats", "Monitor Show", "My Monitored Shows",
     "Stop Monitoring", "Help"}

\* The show URLs a user sends, with the id the pattern showURL=(\d+) finds.
UrlTable == [u \in {"https://venue/?showURL=" \o th : th \in Theaters} |->
                CHOOSE th \in Theaters : u = "https://venue/?showURL=" \o th]

NumberTexts == {"0", "2"}

Texts ==
    button_commands \cup NumberTexts \cup {"abc", "sup2", "https://venue/"}
    \cup DOMAIN UrlTable

extract_theater_id(url) ==
    IF url \in DOMAIN UrlTable THEN Some(UrlTable[url]) ELSE None

StartsWithHttp(text) == text \in DOMAIN UrlTable \cup {"https://venue/"}

MakeKey(chat_id, theater_id) == <<chat_id, theater_id>>

SetState(c, state) == user_state' = [user_state EXCEPT ![c] = state]

OnlyState(c, state) ==
    /\ SetState(c, state)
    /\ UNCHANGED <<monitored_shows, monitoring_tasks, db_file, tasks, call>>

\* A ceiling taken as it is typed, 0 too.
MaxRowAsTyped(text) == Some(IntOf(text))

\* "0 means unlimited"
MaxRowOf(text) == IF IntOf(text) = 0 THEN None ELSE Some(IntOf(text))

\* An edit that keeps waiting when its key is gone.
ChangeMaxRowKeepsWaiting(c, text, current_state) ==
    IF ~IsDigit(text) \/ ~IntParsable(text) THEN UNCHANGED vars
    ELSE LET key == current_state.key
         IN  IF key # <<>> /\ key \in DOMAIN monitored_shows
             THEN /\ monitored_shows' =
                         [monitored_shows EXCEPT ![key].max_row = MaxRowOf(text)]
                  /\ db_file' \in Written(monitored_shows')
                  /\ SetState(c, NoState)
                  /\ UNCHANGED <<monitoring_tasks, tasks, call>>
             ELSE UNCHANGED vars

\* handle_message in ChangeMaxRowState
ChangeMaxRow(c, text, current_state) ==
    IF ~IsDigit(text) THEN UNCHANGED vars
    ELSE IF ~IntParsable(text) THEN UNCHANGED vars  \* int(text): ValueError
    ELSE LET key == current_state.key
         IN  /\ IF key # <<>> /\ key \in DOMAIN monitored_shows
                THEN /\ monitored_shows' =
                            [monitored_shows EXCEPT ![key].max_row = MaxRowOf(text)]
                     /\ db_file' \in Written(monitored_shows')
                ELSE UNCHANGED <<monitored_shows, db_file>>
             /\ SetState(c, NoState)
             /\ UNCHANGED <<monitoring_tasks, tasks, call>>

handle_min_seats_input(c, text, theater_id) ==
    IF ~IsDigit(text) THEN UNCHANGED vars
    ELSE IF ~IntParsable(text) THEN UNCHANGED vars  \* int(text): ValueError
    ELSE IF theater_id = "" THEN OnlyState(c, NoState)
    ELSE OnlyState(c, MonitorSetupState(theater_id, "max_row_setup",
                                        Some(IntOf(text))))

handle_max_row_input(c, text, theater_id, min_seats) ==
    IF ~IsDigit(text) THEN UNCHANGED vars
    ELSE IF ~IntParsable(text) THEN UNCHANGED vars  \* int(text): ValueError
    ELSE IF theater_id = "" \/ min_seats = None THEN OnlyState(c, NoState)
    ELSE LET key == MakeKey(c, theater_id)
         IN  /\ CanStartTask(key)
             /\ monitored_shows' =
                    Put(monitored_shows, key,
                        MonitoredShow(c, theater_id, min_seats[1], MaxRowOf(text)))
             /\ db_file' \in Written(monitored_shows')
             /\ start_monitoring_task(key, theater_id, min_seats[1], c)
             /\ SetState(c, NoState)
             /\ UNCHANGED call

\* start_monitoring: reached from no handler of run(); kept as the code has it.
start_monitoring(c, url) ==
    IF extract_theater_id(url) = None THEN UNCHANGED vars
    ELSE OnlyState(c, MonitorSetupState(extract_theater_id(url)[1],
                                        "min_seats", None))

\* The one-shot search of find_seats_for_url and of the find_now callback,
\* from the end of the POST on: does an exception leave it?  The fetch
\* passes on every exception but aiohttp.ClientError, and the grouping (with
\* DEFAULT_MIN_SEATS and no ceiling) can raise.
SearchRaises(outcome) ==
    LET fetched == fetch_and_parse_chairmap(outcome)
    IN  \/ fetched.raised # ""
        \/ /\ fetched.seats # <<>>
           /\ find_adjacent_seats(fetched.seats, DEFAULT_MIN_SEATS,
                                  None).raised # ""

\* A search that keeps what it found as the last groups of the show the
\* chat monitors.
FindRecordsGroups(c, url, outcome) ==
    LET key   == MakeKey(c, UrlTable[url])
        found == find_adjacent_seats(fetch_and_parse_chairmap(outcome).seats,
                                     DEFAULT_MIN_SEATS, None)
    IN  IF url \notin DOMAIN UrlTable \/ SearchRaises(outcome)
           \/ key \notin DOMAIN monitored_shows
        THEN OnlyState(c, NoState)
        ELSE /\ monitored_shows' =
                    WithLastGroups(monitored_shows, key, found.groups)
             /\ db_file' \in Written(monitored_shows')
             /\ SetState(c, NoState)
             /\ UNCHANGED <<monitoring_tasks, tasks, call>>

\* handle_message in FindSeatsState: find_seats_for_url replies with what it
\* found and self keeps nothing of it; the state is popped when it returns,
\* and stays when an exception leaves it.
find_seats_for_url(c, url, outcome) ==
    IF extract_theater_id(url) = None THEN OnlyState(c, NoState)
    ELSE IF SearchRaises(outcome) THEN UNCHANGED vars
    ELSE OnlyState(c, NoState)

handle_message(c, text) ==
    LET stored == user_state[c]
        popped == /\ stored.tag \in {"ChangeMaxRowState", "MonitorSetupState"}
                  /\ text \in button_commands
        current_state == IF popped THEN NoState ELSE stored
    IN  IF text \in {"Find Available Seats", "Monitor Show"}
        THEN OnlyState(c, FindSeatsState)
        ELSE IF text \in button_commands
        THEN OnlyState(c, current_state)
        ELSE IF current_state.tag = "ChangeMaxRowState"
        THEN ChangeMaxRow(c, text, current_state)
        ELSE IF /\ current_state.tag = "MonitorSetupState"
                /\ current_state.waiting_for = "min_seats"
        THEN handle_min_seats_input(c, text, current_state.temp_theater_id)
        ELSE IF /\ current_state.tag = "MonitorSetupState"
                /\ current_state.waiting_for = "max_row_setup"
        THEN handle_max_row_input(c, text, current_state.temp_theater_id,
                                  current_state.temp_min_seats)
        ELSE IF current_state.tag = "FindSeatsState"
        THEN \E outcome \in FetchOutcomes : find_seats_for_url(c, text, outcome)
        ELSE IF StartsWithHttp(text)
        THEN \* handle_url: a reply with buttons
             UNCHANGED vars
        ELSE OnlyState(c, InitialState)

\* user_data.get('state') as the state branches of handle_message read it:
\* popped when a button text came in an input state.
RefreshedState(c, text) ==
    IF /\ user_state[c].tag \in {"ChangeMaxRowState", "MonitorSetupState"}
       /\ text \in button_commands
    THEN NoState ELSE user_state[c]

\* No reply_text: the handler was left by an exception before it sent one.
NoReply == ""

\* The text handle_message answers with (the first line of it, without the
\* emoji), branch by branch.
handle_message_reply(c, text) ==
    LET current_state == RefreshedState(c, text)
        key == current_state.key
    IN  IF text = "Find Available Seats" THEN "Please send me the show URL"
        ELSE IF text = "Monitor Show"
        THEN "Please send me the show URL to monitor"
        ELSE IF text = "My Monitored Shows" THEN "Your monitored shows"
        ELSE IF text = "Stop Monitoring"
        THEN "Select a show to stop monitoring"
        ELSE IF text = "Help" THEN "Theater Seat Finder Bot Help"
        ELSE IF current_state.tag = "ChangeMaxRowState"
        THEN IF ~IsDigit(text)
             THEN "Please enter a valid number (0 for unlimited)."
             ELSE IF ~IntParsable(text) THEN NoReply
             ELSE IF key # <<>> /\ key \in DOMAIN monitored_shows
             THEN "Successfully updated max row"
             ELSE "Error updating max row. Please try again."
        ELSE IF /\ current_state.tag = "MonitorSetupState"
                /\ current_state.waiting_for = "min_seats"
        THEN IF ~IsDigit(text) THEN "Please enter a valid number."
             ELSE IF ~IntParsable(text) THEN NoReply
             ELSE IF current_state.temp_theater_id = ""
             THEN "Something went wrong. Please try again."
             ELSE "What is the maximum row number you want to consider?"
        ELSE IF /\ current_state.tag = "MonitorSetupState"
                /\ current_state.waiting_for = "max_row_setup"
        THEN IF ~IsDigit(text)
             THEN "Please enter a valid number (0 for unlimited)."
             ELSE IF ~IntParsable(text) THEN NoReply
             ELSE IF \/ current_state.temp_theater_id = ""
                     \/ current_state.temp_min_seats = None
             THEN "Something went wrong. Please try again."
             ELSE "Successfully started monitoring show"
        ELSE IF current_state.tag = "FindSeatsState"
        THEN IF extract_theater_id(text) = None
             THEN "Invalid URL format. Please send a valid URL"
             ELSE "Searching for available seats..."
        ELSE IF StartsWithHttp(text)
        THEN IF extract_theater_id(text) = None
             THEN "Invalid URL format. Please send a valid URL"
             ELSE "Found show ID"
        ELSE "Please send a valid show URL or use the menu buttons."

start_command(c) == OnlyState(c, InitialState)

find_command(c) == OnlyState(c, FindSeatsState)

monitor_command(c) == OnlyState(c, FindSeatsState)

\* help_command, myshows_command, stop_command: a reply, nothing else.
help_command(c) == UNCHANGED vars

\* The callback data a chat can send: the buttons it was shown, for its own
\* keys (a button stays on screen after its subscription is gone).
CallbackData(c) ==
    {[cmd |-> cmd, theater_id |-> th, key |-> <<>>] :
        cmd \in {"find_now", "monitor"}, th \in Theaters}
    \cup {[cmd |-> cmd, theater_id |-> "", key |-> MakeKey(c, th)] :
        cmd \in {"stop", "manage", "change_max_row"}, th \in Theaters}
    \cup {[cmd |-> "main_menu", theater_id |-> "", key |-> <<>>]}

\* inline_button_handler, branch stop_: the record goes, the file is written,
\* the task is cancelled and taken from the registry.
StopCallback(c, key) ==
    IF key \in DOMAIN monitored_shows
    THEN /\ monitored_shows' = Remove(monitored_shows, key)
         /\ db_file' \in Written(monitored_shows')
         /\ stop_monitoring_task(key)
         /\ UNCHANGED <<user_state, call>>
    ELSE UNCHANGED vars

\* query.data.split('_', 1)[1], the text after the first underscore of the
\* data: the key after 'stop_' and 'manage_', and 'max_row_' with the key
\* behind it after 'change_max_row_' (a text that is the key of nothing, here
\* the key with that word in front).
SplitFirst(data) ==
    IF data.cmd = "change_max_row" THEN <<"max_row">> \o data.key
    ELSE data.key

\* inline_button_handler, branch find_now_: the message is edited to what
\* the search found (or the exception leaves the handler); self and
\* user_data are not written.
find_now(c, theater_id, outcome) == UNCHANGED vars

inline_button_handler(c, data) ==
    IF data.cmd = "find_now"
    THEN \E outcome \in FetchOutcomes : find_now(c, data.theater_id, outcome)
    ELSE IF data.cmd = "monitor"
    THEN OnlyState(c, MonitorSetupState(data.theater_id, "min_seats", None))
    ELSE IF data.cmd = "stop" THEN StopCallback(c, SplitFirst(data))
    ELSE IF data.cmd = "manage" THEN UNCHANGED vars
    ELSE IF data.cmd = "change_max_row"
    THEN IF SplitFirst(data) \in DOMAIN monitored_shows
         THEN OnlyState(c, ChangeMaxRowState(SplitFirst(data)))
         ELSE UNCHANGED vars
    ELSE OnlyState(c, InitialState)

----------------------------------------------------------------------------
(* The process *)

\* TheaterBot.__init__ and run(): the mapping is loaded, the registry is
\* empty, the handlers are added and polling starts.  Nothing else happens.
Started(file) ==
    /\ monitored_shows = load_db(file)
    /\ monitoring_tasks = EmptyMap
    /\ db_file = FileAfterLoad(file)
    /\ tasks = [t \in Tids |-> FreeTask]
    /\ user_state = [c \in Chats |-> NoState]

\* No method is examined on its own while the bot runs.
NoCall == <<>>

Init == Started(AbsentFile) /\ call = NoCall

\* The process ends (its tasks and user_data with it) and is started again.
ProcessRestart ==
    /\ monitored_shows' = load_db(db_file)
    /\ monitoring_tasks' = EmptyMap
    /\ db_file' = FileAfterLoad(db_file)
    /\ tasks' = [t \in Tids |-> FreeTask]
    /\ user_state' = [c \in Chats |-> NoState]
    /\ UNCHANGED call

Next ==
    \/ \E t \in Tids : TaskStart(t)
    \/ \E t \in Tids, outcome \in FetchOutcomes : FetchComplete(t, outcome)
    \/ \E t \in Tids : ResumeFetch(t)
    \/ \E t \in Tids, outcome \in NotifyOutcomes : NotifyComplete(t, outcome)
    \/ \E t \in Tids : ResumeNotify(t)
    \/ \E t \in Tids : ResumeSleep(t)
    \/ \E c \in Chats, text \in Texts : handle_message(c, text)
    \/ \E c \in Chats : start_command(c)
    \/ \E c \in Chats : find_command(c)
    \/ \E c \in Chats : monitor_command(c)
    \/ \E c \in Chats : help_command(c)
    \/ \E c \in Chats : \E data \in CallbackData(c) : inline_button_handler(c, data)
    \/ ProcessRestart

Spec == Init /\ [][Next]_vars

\* handle_message entered the way a test of its ChangeMaxRowState branch
\* enters it: chat c has just subscribed to show 7 (the record saved, the task
\* created and registered) and its user_data holds ChangeMaxRowState(key).
\* No handler stores that state for a key of the mapping (SplitFirst), so
\* Spec never has it; EditSpec is where the branch is exercised.
EditStarted ==
    \E max_row \in {None, Some(2)} :
        LET c    == CHOOSE x \in Chats : TRUE
            key  == MakeKey(c, "7")
            show == MonitoredShow(c, "7", DEFAULT_MIN_SEATS, max_row)
        IN  /\ monitored_shows = Put(EmptyMap, key, show)
            /\ db_file = save_db(monitored_shows)
            /\ tasks = [t \in Tids |->
                           IF t = 1 THEN NewTask("7", DEFAULT_MIN_SEATS, c, key)
                           ELSE FreeTask]
            /\ monitoring_tasks = Put(EmptyMap, key, 1)
            /\ user_state = [x \in Chats |-> ChangeMaxRowState(MakeKey(x, "7"))]

EditInit == EditStarted /\ call = NoCall

EditSpec == EditInit /\ [][Next]_vars

\* The same bot from the moment on at which no write of the store succeeds
\* any more.
FailInit == EditStarted /\ call = WriteFails

FailSpec == FailInit /\ [][Next]_vars

----------------------------------------------------------------------------
(* find_adjacent_seats and _compare_groups, called on their own *)

\* The state of the bot, which such a call does not touch.
bot == <<monitored_shows, monitoring_tasks, db_file, tasks, user_state>>

\* The length of the seat lists and the largest min_seats of the calls.
MaxSeats == 3

MaxMinSeats == 2

\* Rows 1 and 3 and a box A; chairs 9, 10, 11 (their order as numbers is not
\* their order as texts) and a chair A.
RowLabels == {"1", "3", "A"}

ChairLabels == {"9", "10", "11", "A"}

\* The lists of available seats, the same seat more than once among them.
SeatLists ==
    UNION {[1..n -> {Seat(r, ch, "available") : r \in RowLabels,
                                                 ch \in ChairLabels}] :
              n \in 0..MaxSeats}

NotMade == <<>>

GroupInit ==
    /\ Started(AbsentFile)
    /\ call \in [seats : SeatLists, min_seats : 1..MaxMinSeats,
                 max_row : {None, Some(2)}, result : {NotMade}]

\* adjacent_groups = self.find_adjacent_seats(seats, min_seats, max_row)
CallFindAdjacentSeats ==
    /\ call.result = NotMade
    /\ call' = [call EXCEPT !.result =
                   Some(find_adjacent_seats(call.seats, call.min_seats,
                                            call.max_row))]
    /\ UNCHANGED bot

GroupNext == CallFindAdjacentSeats

GroupSpec == GroupInit /\ [][GroupNext]_vars

\* One step of the coroutine of task t.
TaskStep(t) == TaskStart(t) \/ ResumeFetch(t) \/ ResumeNotify(t) \/ ResumeSleep(t)

----------------------------------------------------------------------------
(* Vocabulary of the properties *)

\* A task that can still run a part of a tick: not returned, not cancelled.
Able(task) == Live(task) /\ task.result # Cancelled

Doomed(task) == Live(task) /\ task.result = Cancelled

\* The available seats the tick of a task resuming from its fetch works on.
TickSeats(task) == fetch_and_parse_chairmap(task.result).seats

\* The grouping of that tick: empty when there is no available seat.
TickGroups(task) ==
    IF TickSeats(task) = <<>> THEN <<>>
    ELSE find_adjacent_seats(TickSeats(task), task.min_seats,
                             monitored_shows[task.key].max_row).groups

\* An exception is raised in that tick: by the fetch, or by the grouping.
TickRaises(task) ==
    /\ task.pc = "fetch"
    /\ task.result.kind \notin {"pending", "cancelled"}
    /\ \/ fetch_and_parse_chairmap(task.result).raised # ""
       \/ /\ TickSeats(task) # <<>>
          /\ task.key \in DOMAIN monitored_shows
          /\ find_adjacent_seats(TickSeats(task), task.min_seats,
                                 monitored_shows[task.key].max_row).raised # ""

SameRun(a, b) ==
    /\ a.row = b.row
    /\ a.start_chair = b.start_chair
    /\ a.end_chair = b.end_chair

\* The groups of current that previous does not hold, in current's order.
NewOf(previous, current) ==
    SelectSeq(current,
              LAMBDA g : \A i \in 1..Len(previous) : ~SameRun(previous[i], g))

LastGroups(shows, key) == shows[key].last_available_groups

----------------------------------------------------------------------------
(* C1: one poller per key *)

C1_OneAblePerKey ==
    \A k \in Keys :
        Cardinality({t \in Tids : tasks[t].key = k /\ Able(tasks[t])}) <= 1

C1_DoomedOnlyEnds ==
    \A t \in Tids :
        Doomed(tasks[t]) =>
            /\ tasks'[t].pc \in {tasks[t].pc, "done", "free"}
            /\ tasks'[t].message = None
            /\ tasks'[t] # tasks[t] =>
                   /\ monitored_shows' = monitored_shows
                   /\ db_file' = db_file

\* C1: in every state at most one task per key can run a part of a tick, and
\* a task that was cancelled (as start_monitoring_task does to the task it
\* replaces) starts no notification and writes neither the mapping nor the
\* store: it only ends.  So the ticks of a key never overlap.
C1_SinglePoller == [](C1_OneAblePerKey) /\ [][C1_DoomedOnlyEnds]_vars

\* A replaced task, cancelled in the middle of its tick, beside the new task
\* of the key in its own tick.
C1_Witness ==
    \E t, u \in Tids :
        /\ t # u
        /\ tasks[t].key = tasks[u].key
        /\ Doomed(tasks[t]) /\ tasks[t].pc \in {"fetch", "notify"}
        /\ Able(tasks[u]) /\ tasks[u].pc \in {"fetch", "notify"}

----------------------------------------------------------------------------
(* C2: a live task for every subscription *)

\* C2: in every state every key of the mapping has exactly one task that has
\* not returned.
C2_ExactlyOneLiveTask ==
    \A k \in DOMAIN monitored_shows :
        Cardinality({t \in Tids : tasks[t].key = k /\ Live(tasks[t])}) = 1

----------------------------------------------------------------------------
(* C3: an exception in a tick *)

\* C3: when a tick raises (the fetch with an exception that is no transport
\* error, the grouping), the step of the task that meets it leaves the task
\* in its loop, not returned.
C3_TickErrorKeepsPolling ==
    [][\A t \in Tids :
          TickRaises(tasks[t]) /\ ResumeFetch(t) => Live(tasks'[t])]_vars

----------------------------------------------------------------------------
(* C4: lastGroups after a tick *)

\* The step of task t that ends a tick: into the sleep.
EndsTick(t) ==
    /\ ResumeFetch(t) \/ ResumeNotify(t)
    /\ tasks'[t].pc = "sleep"

\* C4: every step that ends a tick leaves the full grouping of the tick in
\* last_available_groups (the empty one when the fetch gave no available
\* seat) and the store written from the mapping.
C4_TickOverwritesLastGroups ==
    [][\A t \in Tids :
          EndsTick(t) =>
              /\ LastGroups(monitored_shows', tasks[t].key) =
                     IF tasks[t].pc = "notify" THEN tasks[t].adjacent_groups
                     ELSE TickGroups(tasks[t])
              /\ db_file' = save_db(monitored_shows')]_vars

----------------------------------------------------------------------------
(* C5: monitoring after a restart *)

\* C5: when the process starts with subscriptions in the store, each has a
\* registered task that has not returned.
C5_RestartResumesMonitoring ==
    [][ProcessRestart =>
          \A k \in DOMAIN monitored_shows' :
              /\ k \in DOMAIN monitoring_tasks'
              /\ Live(tasks'[monitoring_tasks'[k]])]_vars

----------------------------------------------------------------------------
(* C6: when and what a tick notifies *)

ExpectedMessage(task, previous, current) ==
    LET new == NewOf(previous, current)
    IN  [chat_id    |-> monitored_shows[task.key].chat_id,
         theater_id |-> monitored_shows[task.key].theater_id,
         lines      |-> [i \in 1..Len(new) |->
                            [n |-> i, count |-> new[i].count, row |-> new[i].row,
                             start_chair |-> new[i].start_chair,
                             end_chair |-> new[i].end_chair]],
         total      |-> Len(current)]

\* C6: the step of a tick that follows the fetch (not cancelled, nothing
\* raised) calls send_message exactly when the grouping holds a group that
\* last_available_groups does not; the message then lists these groups in
\* the grouping's order, gives the number of groups of the grouping as the
\* total and goes to the chat of the subscription.
C6_NotifyIffDiff ==
    [][\A t \in Tids :
          /\ ResumeFetch(t)
          /\ tasks[t].result # Cancelled
          /\ ~TickRaises(tasks[t])
          => LET previous == LastGroups(monitored_shows, tasks[t].key)
                 current  == TickGroups(tasks[t])
             IN  /\ tasks'[t].pc = "notify" <=> NewOf(previous, current) # <<>>
                 /\ tasks'[t].pc = "notify" =>
                        tasks'[t].message =
                            Some(ExpectedMessage(tasks[t], previous, current))
                 /\ tasks'[t].pc # "notify" => tasks'[t].message = None]_vars

\* A notification in flight that lists fewer groups than the grouping has.
C6_Witness ==
    \E t \in Tids :
        /\ tasks[t].pc = "notify"
        /\ tasks[t].message # None
        /\ Len(tasks[t].message[1].lines) < tasks[t].message[1].total

----------------------------------------------------------------------------
(* C7: a transport failure of the fetch *)

C7_FailedFetchSleeps ==
    \A t \in Tids :
        ResumeFetch(t) /\ tasks[t].result.kind = "ClientError" =>
            /\ tasks'[t].pc = "sleep"
            /\ tasks'[t].result = Pending
            /\ UNCHANGED <<monitored_shows, monitoring_tasks, db_file>>

\* A task asleep and not cancelled passes the loop condition when it wakes.
C7_SleeperTicksAgain ==
    \A t \in Tids :
        tasks[t].pc = "sleep" /\ Able(tasks[t]) => LoopCondition(tasks[t])

----------------------------------------------------------------------------
(* C8: a failure of the notification *)

\* C8: when send_message fails, the step that follows still writes the
\* grouping of the tick to last_available_groups and the mapping to the
\* store and leaves the task in its sleep; every group of the failed
\* message is then on record, so a next tick that finds it again does not
\* report it.
C8_NotifyFailureKeepsTick ==
    [][\A t \in Tids :
          ResumeNotify(t) /\ tasks[t].result.kind = "SendError" =>
              /\ tasks'[t].pc = "sleep" /\ Able(tasks'[t])
              /\ LastGroups(monitored_shows', tasks[t].key)
                     = tasks[t].adjacent_groups
              /\ db_file' = save_db(monitored_shows')
              /\ \A i \in 1..Len(tasks[t].message[1].lines) :
                     \E j \in 1..Len(LastGroups(monitored_shows', tasks[t].key)) :
                         SameRun(tasks[t].message[1].lines[i],
                                 LastGroups(monitored_shows', tasks[t].key)[j])
              /\ NewOf(LastGroups(monitored_shows', tasks[t].key),
                       tasks[t].adjacent_groups) = <<>>]_vars

\* send_message has failed and the task has not yet gone on.
C8_Witness ==
    \E t \in Tids :
        /\ tasks[t].pc = "notify"
        /\ tasks[t].result.kind = "SendError"
        /\ tasks[t].message # None

----------------------------------------------------------------------------
(* C9: after the stop callback *)

C9_StopRemoves ==
    \A c \in Chats, k \in Keys :
        StopCallback(c, k) =>
            /\ k \notin DOMAIN monitored_shows'
            /\ k \notin DOMAIN monitoring_tasks'
            /\ \A t \in Tids : tasks'[t].key = k => ~Able(tasks'[t])

\* A task whose key has no record can do nothing but end.
C9_OrphanOnlyEnds ==
    \A t \in Tids :
        Live(tasks[t]) /\ tasks[t].key \notin DOMAIN monitored_shows =>
            /\ Doomed(tasks[t])
            /\ \/ tasks'[t] = tasks[t]
               \/ tasks'[t] = Finished(tasks[t], "cancelled")
               \/ tasks'[t] = FreeTask

\* C9: the stop callback leaves the key in neither the mapping nor the
\* registry and every task of the key cancelled or returned; a task of a key
\* that has no record begins no notification and no write, wherever it was
\* suspended: its one step, which the event loop has ready, is its return.
C9_StopEndsPolling ==
    /\ [][C9_StopRemoves]_vars
    /\ [][C9_OrphanOnlyEnds]_vars
    /\ [](\A t \in Tids : Doomed(tasks[t]) => ENABLED TaskStep(t))

\* The subscription is gone while its task is still suspended in
\* send_message.
C9_Witness ==
    \E k \in Keys \ DOMAIN monitored_shows :
        /\ k \notin DOMAIN monitoring_tasks
        /\ \E t \in Tids :
               /\ tasks[t].key = k
               /\ tasks[t].pc = "notify"
               /\ Doomed(tasks[t])

----------------------------------------------------------------------------
(* C10: the replaced task has ended before the key is used again *)

\* C10: at the step that creates a task for a key, every other task of the
\* key has returned.
C10_OldTaskEndedFirst ==
    [][\A t \in Tids :
          tasks'[t].pc = "created" /\ tasks'[t] # tasks[t] =>
              \A u \in Tids \ {t} :
                  tasks'[u].key = tasks'[t].key => ~Live(tasks'[u])]_vars

----------------------------------------------------------------------------
(* C11: changing the row ceiling of a subscription *)

\* The callback data of the button "Change Max Row" of key k.
ChangeMaxRowData(k) == [cmd |-> "change_max_row", theater_id |-> "", key |-> k]

\* A text int() reads after isdigit() let it pass.
IsNumber(text) == IsDigit(text) /\ IntParsable(text)

\* For a key of the mapping the button leads to the state that awaits the
\* new ceiling of that key.
C11_EditOffered ==
    \A c \in Chats, k \in Keys :
        k \in DOMAIN monitored_shows =>
            ENABLED (/\ inline_button_handler(c, ChangeMaxRowData(k))
                     /\ user_state'[c] = ChangeMaxRowState(k))

\* The number sent in that state becomes the ceiling of the key; nothing
\* else of the mapping changes, nor the registry, nor any task.
C11_EditChangesOnlyCeiling ==
    \A c \in Chats, text \in Texts :
        /\ IsNumber(text)
        /\ user_state[c].tag = "ChangeMaxRowState"
        /\ user_state[c].key \in DOMAIN monitored_shows
        /\ handle_message(c, text)
        => /\ monitored_shows' =
                  [monitored_shows EXCEPT
                      ![user_state[c].key].max_row = MaxRowOf(text)]
           /\ UNCHANGED <<monitoring_tasks, tasks>>

\* A tick groups with the ceiling the mapping holds when it groups.
C11_TickUsesCeiling ==
    \A t \in Tids :
        /\ ResumeFetch(t)
        /\ Able(tasks[t])
        /\ ~TickRaises(tasks[t])
        /\ TickSeats(tasks[t]) # <<>>
        => LET groups == find_adjacent_seats(
                             TickSeats(tasks[t]), tasks[t].min_seats,
                             monitored_shows[tasks[t].key].max_row).groups
           IN  IF tasks'[t].pc = "notify"
               THEN tasks'[t].adjacent_groups = groups
               ELSE LastGroups(monitored_shows', tasks[t].key) = groups

\* C11: a user can change the row ceiling of a subscription he has (the
\* button of the key opens the edit, the number he sends becomes the
\* ceiling); the change touches only max_row of that key, leaves
\* last_available_groups, min_seats, the registry and the tasks alone, and
\* every tick that groups afterwards groups with the new ceiling.
C11_UpdateRowCeiling ==
    /\ [](C11_EditOffered)
    /\ [][C11_EditChangesOnlyCeiling]_vars
    /\ [][C11_TickUsesCeiling]_vars

\* The part of C11 that is the edit itself and the tick after it.
C11_EditAsEntered ==
    [][C11_EditChangesOnlyCeiling]_vars /\ [][C11_TickUsesCeiling]_vars

----------------------------------------------------------------------------
(* C12: a new ceiling for a key that is gone *)

\* C12: a number sent in ChangeMaxRowState for a key the mapping no longer
\* has is answered with the error text; the handler leaves the mapping, the
\* store, the registry and the tasks as they are and the chat with no
\* pending state.
C12_StaleKeyEdit ==
    \A c \in Chats, text \in Texts :
        /\ IsNumber(text)
        /\ user_state[c].tag = "ChangeMaxRowState"
        /\ user_state[c].key \notin DOMAIN monitored_shows
        => /\ handle_message_reply(c, text)
                  = "Error updating max row. Please try again."
           /\ ENABLED (/\ handle_message(c, text)
                       /\ user_state'[c] = NoState
                       /\ UNCHANGED <<monitored_shows, db_file,
                                      monitoring_tasks, tasks>>)

\* The chat awaits a new ceiling for a subscription that was stopped in the
\* meantime.
C12_Witness ==
    \E c \in Chats :
        /\ user_state[c].tag = "ChangeMaxRowState"
        /\ user_state[c].key \notin DOMAIN monitored_shows
        /\ user_state[c].key \notin DOMAIN monitoring_tasks
        /\ db_file = save_db(monitored_shows)

----------------------------------------------------------------------------
(* C13: a text that is no number where a number is awaited *)

\* The chat awaits a number: the minimum of seats, the ceiling of the setup,
\* or a new ceiling.
AwaitsNumber(c) ==
    \/ user_state[c].tag = "ChangeMaxRowState"
    \/ /\ user_state[c].tag = "MonitorSetupState"
       /\ user_state[c].waiting_for \in {"min_seats", "max_row_setup"}

\* C13: a text that is no number (and no menu button), sent while a number
\* is awaited, is answered with the request for a valid number and changes
\* nothing: not the state of the chat, not the mapping, not the store, not
\* the registry, not a task.
C13_NonNumericReprompts ==
    \A c \in Chats, text \in Texts \ button_commands :
        AwaitsNumber(c) /\ ~IntParsable(text) =>
            /\ handle_message_reply(c, text) \in
                   {"Please enter a valid number.",
                    "Please enter a valid number (0 for unlimited)."}
            /\ ENABLED (handle_message(c, text) /\ UNCHANGED vars)

----------------------------------------------------------------------------
(* C14: min_seats of a subscription *)

\* C14: every subscription of the mapping has min_seats >= 1.
C14_MinSeatsPositive ==
    \A k \in DOMAIN monitored_shows : monitored_shows[k].min_seats >= 1

\* The length of the group lists of the calls of _compare_groups.
MaxGroups == 2

\* Groups of rows 1 and 3 over chairs 9-10 and 9-11, the same chairs under
\* two counts among them.
GroupValues ==
    {[row |-> r, start_chair |-> "9", end_chair |-> e, count |-> n] :
        r \in {"1", "3"}, e \in {"10", "11"}, n \in 2..3}

GroupLists == UNION {[1..n -> GroupValues] : n \in 0..MaxGroups}

DiffInit ==
    /\ Started(AbsentFile)
    /\ call \in [old_groups : GroupLists, new_groups : GroupLists,
                 result : {NotMade}]

\* new_groups = self._compare_groups(old_groups, adjacent_groups)
CallCompareGroups ==
    /\ call.result = NotMade
    /\ call' = [call EXCEPT !.result =
                   Some(compare_groups(call.old_groups, call.new_groups))]
    /\ UNCHANGED bot

DiffNext == CallCompareGroups

DiffSpec == DiffInit /\ [][DiffNext]_vars

----------------------------------------------------------------------------
(* save_db and load_db, called on their own *)

\* The subscriptions of two chats.
StoreKeys == {MakeKey(c, th) : c \in {1, 2}, th \in Theaters}

\* The most groups a stored show has.
MaxStoredGroups == 2

\* What last_available_groups holds: nothing, one group, two groups, ...
StoredGroups ==
    LET g == [row |-> "1", start_chair |-> "9", end_chair |-> "10", count |-> 2]
        h == [row |-> "A", start_chair |-> "A", end_chair |-> "A", count |-> 1]
    IN  {[i \in 1..n |-> IF i % 2 = 1 THEN g ELSE h] : n \in 0..MaxStoredGroups}

StoreShows(key) ==
    {[MonitoredShow(key[1], key[2], min_seats, max_row)
         EXCEPT !.last_available_groups = groups] :
        min_seats \in 1..2, max_row \in {None, Some(2)}, groups \in StoredGroups}

StoreMappings ==
    UNION {{m \in [K -> UNION {StoreShows(k) : k \in K}] :
               \A k \in K : m[k] \in StoreShows(k)} : K \in SUBSET StoreKeys}

\* The file with the key f taken out of the table of k.
WithoutField(file, k, f) ==
    TomlFile([file.data EXCEPT
                 ![k] = Restrict(@, DOMAIN @ \ {f})])

\* The files load_db can meet: none, one that is no TOML, the files save_db
\* writes, and those with one key of one table missing.
StoreFiles ==
    {AbsentFile, CorruptFile}
    \cup {save_db(m) : m \in StoreMappings}
    \cup UNION {UNION {{WithoutField(save_db(m), k, f) :
                           f \in DOMAIN save_db(m).data[k]} : k \in DOMAIN m} :
                m \in StoreMappings}

StoreCall(op, shows, file) == [op |-> op, shows |-> shows, file |-> file]

\* Either a mapping in memory that is to be saved, or a file that is to be
\* loaded.
StoreInit ==
    /\ monitoring_tasks = EmptyMap
    /\ tasks = [t \in Tids |-> FreeTask]
    /\ user_state = [c \in Chats |-> NoState]
    /\ \/ monitored_shows \in StoreMappings /\ db_file = AbsentFile
       \/ monitored_shows = EmptyMap /\ db_file \in StoreFiles
    /\ call = StoreCall("none", monitored_shows, db_file)

\* self.save_db()
CallSaveDb ==
    /\ call.op = "none"
    /\ db_file' = save_db(monitored_shows)
    /\ call' = [call EXCEPT !.op = "save"]
    /\ UNCHANGED <<monitored_shows, monitoring_tasks, tasks, user_state>>

\* self.monitored_shows = self.load_db()
CallLoadDb ==
    /\ call.op \in {"none", "save"}
    /\ monitored_shows' = load_db(db_file)
    /\ db_file' = FileAfterLoad(db_file)
    /\ call' = [call EXCEPT !.op = IF @ = "save" THEN "save_load" ELSE "load"]
    /\ UNCHANGED <<monitoring_tasks, tasks, user_state>>

StoreNext == CallSaveDb \/ CallLoadDb

StoreSpec == StoreInit /\ [][StoreNext]_vars

----------------------------------------------------------------------------
(* parse_seats_from_html, called on its own *)

\* The number of anchors of the documents.
MaxAnchors == 2

\* The orders in which an anchor carries its three attributes.
AttrOrders ==
    {o \in [1..3 -> {"class", "data-chair", "data-row"}] :
        \A i, j \in 1..3 : i # j => o[i] # o[j]}

\* A seat as the venue knows it, and the order of the attributes of its
\* anchor.
Elements ==
    [row : {"1", "3"}, chair : {"9", "10"}, class : {"seat", "seat taken"},
     order : AttrOrders]

ElementLists == UNION {[1..n -> Elements] : n \in 0..MaxAnchors}

\* The anchor of an element: <a, the three attributes in its order, </a>.
ElementMarkup(e) ==
    LET value == [n \in {"class", "data-chair", "data-row"} |->
                     IF n = "class" THEN e.class
                     ELSE IF n = "data-chair" THEN e.chair ELSE e.row]
    IN  <<Open>> \o [i \in 1..3 |-> Attr(e.order[i], value[e.order[i]])]
        \o <<Close>>

RECURSIVE Markup(_)
Markup(elements) ==
    IF elements = <<>> THEN <<>>
    ELSE ElementMarkup(Head(elements)) \o Markup(Tail(elements))

ParseInit ==
    /\ Started(AbsentFile)
    /\ call \in [elements : ElementLists, result : {NotMade}]

\* seats = self.parse_seats_from_html(html_content)
CallParseSeats ==
    /\ call.result = NotMade
    /\ call' = [call EXCEPT !.result =
                   Some(parse_seats_from_html(Markup(call.elements)))]
    /\ UNCHANGED bot

ParseNext == CallParseSeats

ParseSpec == ParseInit /\ [][ParseNext]_vars

----------------------------------------------------------------------------
(* The groups of a single call *)

Made == call.result # NotMade

Outcome == call.result[1]

Returns == Made /\ Outcome.raised = ""

\* The seats a ceiling leaves: every seat but those whose row is an integer
\* above it.
WithinCeiling(seats, max_row) ==
    SelectSeq(seats, LAMBDA s : \/ max_row = None
                                \/ ~IntParsable(s.row)
                                \/ IntOf(s.row) <= max_row[1])

Considered == WithinCeiling(call.seats, call.max_row)

\* The chair numbers of a row among the seats considered.
ChairNumbers(row) ==
    {IntOf(Considered[i].chair) :
        i \in {j \in 1..Len(Considered) :
                  /\ Considered[j].row = row
                  /\ IntParsable(Considered[j].chair)}}

\* The maximal runs of consecutive chair numbers of a row that have at
\* least min_seats chairs.
MaximalRuns(row) ==
    {run \in ChairNumbers(row) \X ChairNumbers(row) :
        /\ run[1] <= run[2]
        /\ \A n \in run[1]..run[2] : n \in ChairNumbers(row)
        /\ run[1] - 1 \notin ChairNumbers(row)
        /\ run[2] + 1 \notin ChairNumbers(row)
        /\ run[2] - run[1] + 1 >= call.min_seats}

NumberedGroups ==
    {i \in 1..Len(Outcome.groups) : IntParsable(Outcome.groups[i].start_chair)}

\* C15: the groups a call returns are exactly the maximal runs of
\* consecutive chair numbers of each row that have at least min_seats
\* chairs, each with its length as count, whatever the list of seats, lists
\* that name a seat twice included.
C15_ExactlyMaximalRuns ==
    Returns =>
        /\ \A i \in NumberedGroups :
              LET g == Outcome.groups[i]
              IN  /\ <<IntOf(g.start_chair), IntOf(g.end_chair)>>
                        \in MaximalRuns(g.row)
                  /\ g.count = IntOf(g.end_chair) - IntOf(g.start_chair) + 1
        /\ \A row \in RowLabels : \A run \in MaximalRuns(row) :
              \E i \in NumberedGroups :
                  LET g == Outcome.groups[i]
                  IN  /\ g.row = row
                      /\ IntOf(g.start_chair) = run[1]
                      /\ IntOf(g.end_chair) = run[2]

\* C16: with a ceiling, a call returns and does not fail, whatever the row
\* labels; its groups are those of the seats left when every seat whose row
\* is an integer above the ceiling is dropped and every seat whose row is no
\* integer is kept, lists with rows of both kinds included.
C16_CeilingFilter ==
    (Made /\ call.max_row # None) =>
        LET unfiltered == find_adjacent_seats(Considered, call.min_seats, None)
        IN  unfiltered.raised = "" => Outcome = unfiltered

\* A row of the seats considered that has a chair with a number and a chair
\* without one.
MixedRow(row) ==
    \E i, j \in 1..Len(Considered) :
        /\ Considered[i].row = row /\ Considered[j].row = row
        /\ IntParsable(Considered[i].chair)
        /\ ~IntParsable(Considered[j].chair)

\* C17: a call on seats with a row that has numbered and unnumbered chairs
\* returns; in its groups the numbered chairs of a row come before the
\* unnumbered ones, and every unnumbered chair is a run of its own, of
\* length 1.
C17_MixedRowReturns ==
    (Made /\ call.max_row = None /\ \E row \in RowLabels : MixedRow(row)) =>
        /\ Returns
        /\ \A i, j \in 1..Len(Outcome.groups) :
              (i < j /\ Outcome.groups[i].row = Outcome.groups[j].row) =>
                  ~(/\ ~IntParsable(Outcome.groups[i].start_chair)
                    /\ IntParsable(Outcome.groups[j].start_chair))
        /\ \A i \in 1..Len(Outcome.groups) :
              ~IntParsable(Outcome.groups[i].start_chair) =>
                  /\ Outcome.groups[i].count = 1
                  /\ Outcome.groups[i].end_chair =
                         Outcome.groups[i].start_chair

\* The place of a row's first seat in the seats considered.
FirstSeatOf(row) ==
    CHOOSE i \in 1..Len(Considered) :
        /\ Considered[i].row = row
        /\ \A j \in 1..(i - 1) : Considered[j].row # row

\* a is not after b: as numbers when both are numbers, as texts otherwise.
ChairNotAfter(a, b) ==
    IF IntParsable(a) /\ IntParsable(b) THEN IntOf(a) <= IntOf(b)
    ELSE ~StrLess(b, a)

\* C18: the groups a call returns are in the order in which their rows are
\* first met in the seats considered, and the groups of one row are in
\* ascending order of their first chair.
C18_GroupOrder ==
    Returns =>
        \A i, j \in 1..Len(Outcome.groups) :
            i < j =>
                LET g == Outcome.groups[i]
                    h == Outcome.groups[j]
                IN  /\ FirstSeatOf(g.row) <= FirstSeatOf(h.row)
                    /\ g.row = h.row =>
                           ChairNotAfter(g.start_chair, h.start_chair)

\* Groups of two rows met in another order than that of their labels, and two
\* groups of one row whose first chairs are in another order as texts than as
\* numbers.
C18_Witness ==
    /\ Returns
    /\ \E i, j \in 1..Len(Outcome.groups) :
          /\ i < j
          /\ StrLess(Outcome.groups[j].row, Outcome.groups[i].row)
    /\ \E i, j \in 1..Len(Outcome.groups) :
          /\ i < j
          /\ Outcome.groups[i].row = Outcome.groups[j].row
          /\ StrLess(Outcome.groups[j].start_chair,
                     Outcome.groups[i].start_chair)

\* The ceilings a call is compared under: below, between and at the rows.
Ceilings == 0..3

\* The same call under another ceiling.
Under(max_row) == find_adjacent_seats(call.seats, call.min_seats, max_row)

\* Every group of the groups a is one of the groups b.
AllAmong(a, b) == \A i \in 1..Len(a) : \E j \in 1..Len(b) : a[i] = b[j]

\* C19: for the seats and min_seats of a call made with a ceiling, a call
\* with a lower ceiling returns at most as many groups and a call with a
\* higher ceiling at least as many, and every group the call returns is
\* returned by the call with no ceiling.
C19_CeilingMonotone ==
    (Returns /\ call.max_row # None) =>
        /\ \A c \in Ceilings :
              c >= call.max_row[1] =>
                  /\ Under(Some(c)).raised = ""
                  /\ Len(Outcome.groups) <= Len(Under(Some(c)).groups)
        /\ \A c \in Ceilings :
              (c <= call.max_row[1] /\ Under(Some(c)).raised = "") =>
                  Len(Under(Some(c)).groups) <= Len(Outcome.groups)
        /\ Under(None).raised = ""
        /\ AllAmong(Outcome.groups, Under(None).groups)

\* C20: _compare_groups(A, B) is B without the groups whose row, first chair
\* and last chair are those of a group of A, in B's order; so it is empty
\* for B = A and is B for an empty A.
C20_CompareGroups ==
    Made =>
        /\ Outcome = NewOf(call.old_groups, call.new_groups)
        /\ call.old_groups = call.new_groups => Outcome = <<>>
        /\ call.old_groups = <<>> => Outcome = call.new_groups

\* Of two current groups one is reported and the other, which a previous
\* group matches in all but its count, is not.
C20_Witness ==
    /\ Made
    /\ Outcome # <<>>
    /\ \E i \in 1..Len(call.new_groups), j \in 1..Len(call.old_groups) :
          /\ SameRun(call.old_groups[j], call.new_groups[i])
          /\ call.old_groups[j].count # call.new_groups[i].count
          /\ \A k \in 1..Len(Outcome) : Outcome[k] # call.new_groups[i]

----------------------------------------------------------------------------
(* C21, C22: the store *)

\* C21: a mapping that is saved and then loaded comes back as it was, in
\* every field of every show: with and without a ceiling, with and without
\* last groups.
C21_SaveLoadRoundTrip ==
    call.op = "save_load" => monitored_shows = call.shows

\* A mapping came back that holds a show without a ceiling and a show with a
\* ceiling and with last groups.
C21_Witness ==
    /\ call.op = "save_load"
    /\ \E k \in DOMAIN monitored_shows : monitored_shows[k].max_row = None
    /\ \E k \in DOMAIN monitored_shows :
          /\ monitored_shows[k].max_row # None
          /\ monitored_shows[k].last_available_groups # <<>>

\* A file that is no table of subscriptions: it does not parse, or one of
\* its tables lacks a key a subscription must have.
Unreadable(file) ==
    \/ file.kind = "corrupt"
    \/ /\ file.kind = "toml"
       /\ \E k \in DOMAIN file.data :
             \E f \in {"chat_id", "theater_id", "min_seats", "created_at"} :
                 f \notin DOMAIN file.data[k]

\* C22: a load of a file that is no table of subscriptions gives the empty
\* mapping and removes the file; a load with no file gives the empty mapping
\* and there is still no file.
C22_CorruptFileDeleted ==
    call.op = "load" =>
        /\ Unreadable(call.file) =>
              monitored_shows = EmptyMap /\ db_file = AbsentFile
        /\ call.file = AbsentFile =>
              monitored_shows = EmptyMap /\ db_file = AbsentFile

\* The file held two subscriptions, one of them without its min_seats; both
\* are gone.
C22_Witness ==
    /\ call.op = "load"
    /\ call.file.kind = "toml"
    /\ Cardinality(DOMAIN call.file.data) = 2
    /\ \E k \in DOMAIN call.file.data : "min_seats" \notin DOMAIN call.file.data[k]
    /\ \E k \in DOMAIN call.file.data :
          {"chat_id", "theater_id", "min_seats", "created_at"}
              \subseteq DOMAIN call.file.data[k]
    /\ monitored_shows = EmptyMap
    /\ db_file = AbsentFile

----------------------------------------------------------------------------
(* C23: the store follows the mapping *)

\* C23: between two steps of the bot (a handler has returned, every task
\* is at an await) the store holds the mapping the bot has in memory: what
\* load_db reads from the file is monitored_shows.
C23_StoreHoldsMapping ==
    /\ db_file.kind # "corrupt"
    /\ load_db(db_file) = monitored_shows

\* A task sleeps after it wrote its grouping, for a show with a ceiling.
C23_Witness ==
    \E t \in Tids :
        /\ tasks[t].pc = "sleep"
        /\ tasks[t].key \in DOMAIN monitored_shows
        /\ LastGroups(monitored_shows, tasks[t].key) # <<>>
        /\ monitored_shows[tasks[t].key].max_row = Some(2)
        /\ db_file = save_db(monitored_shows)

----------------------------------------------------------------------------
(* C24: a save that fails *)

StopData(k) == [cmd |-> "stop", theater_id |-> "", key |-> k]

\* The create completes: the show is in the mapping as entered, its task is
\* created and registered, the chat has no pending state.
C24_Create ==
    \A c \in Chats, text \in Texts :
        LET state == user_state[c]
            key   == MakeKey(c, state.temp_theater_id)
            done  == /\ handle_message(c, text)
                     /\ key \in DOMAIN monitored_shows'
                     /\ monitored_shows'[key] =
                            MonitoredShow(c, state.temp_theater_id,
                                          state.temp_min_seats[1],
                                          MaxRowOf(text))
                     /\ key \in DOMAIN monitoring_tasks'
                     /\ tasks'[monitoring_tasks'[key]].pc = "created"
                     /\ user_state'[c] = NoState
        IN  (/\ IsNumber(text)
             /\ state.tag = "MonitorSetupState"
             /\ state.waiting_for = "max_row_setup"
             /\ state.temp_theater_id # ""
             /\ state.temp_min_seats # None
             /\ CanStartTask(key))
            => /\ ENABLED done
               /\ ~ENABLED (handle_message(c, text) /\ ~done)

\* The ceiling update completes.
C24_Update ==
    \A c \in Chats, text \in Texts :
        LET key  == user_state[c].key
            done == /\ handle_message(c, text)
                    /\ monitored_shows' =
                           [monitored_shows EXCEPT ![key].max_row = MaxRowOf(text)]
                    /\ user_state'[c] = NoState
                    /\ UNCHANGED <<monitoring_tasks, tasks>>
        IN  (/\ IsNumber(text)
             /\ user_state[c].tag = "ChangeMaxRowState"
             /\ key \in DOMAIN monitored_shows)
            => /\ ENABLED done
               /\ ~ENABLED (handle_message(c, text) /\ ~done)

\* The delete completes: the show is gone, its task is cancelled and out of
\* the registry.
C24_Delete ==
    \A c \in Chats, k \in DOMAIN monitored_shows :
        LET done == /\ inline_button_handler(c, StopData(k))
                    /\ k \notin DOMAIN monitored_shows'
                    /\ k \notin DOMAIN monitoring_tasks'
                    /\ \A t \in Tids : tasks'[t].key = k => ~Able(tasks'[t])
        IN  /\ ENABLED done
            /\ ~ENABLED (inline_button_handler(c, StopData(k)) /\ ~done)

\* The tick completes: the grouping is in last_available_groups and the task
\* is in its sleep.
C24_Tick ==
    \A t \in Tids :
        LET key  == tasks[t].key
            done == /\ ResumeNotify(t)
                    /\ LastGroups(monitored_shows', key) = tasks[t].adjacent_groups
                    /\ tasks'[t].pc = "sleep"
        IN  (/\ tasks[t].pc = "notify"
             /\ tasks[t].result \notin {Pending, Cancelled}
             /\ key \in DOMAIN monitored_shows)
            => /\ ENABLED done
               /\ ~ENABLED (ResumeNotify(t) /\ ~done)

\* C24: while the writes of the store fail, every operation that saves
\* still completes with its effect in memory: the create, the ceiling
\* update, the delete and the tick change the mapping as they do when the
\* write succeeds, the task of the key is started or cancelled, and the
\* operation ends as usual.
C24_FailedSaveCompletes ==
    call = WriteFails => C24_Create /\ C24_Update /\ C24_Delete /\ C24_Tick

\* A tick has written its grouping to the mapping while the file it tried to
\* write is empty.
C24_Witness ==
    /\ call = WriteFails
    /\ db_file = TomlFile(EmptyMap)
    /\ \E t \in Tids :
          /\ tasks[t].pc = "sleep"
          /\ tasks[t].key \in DOMAIN monitored_shows
          /\ LastGroups(monitored_shows, tasks[t].key) # <<>>

----------------------------------------------------------------------------
(* C25: the parser *)

\* C25: the seats parsed from the markup of a list of elements are the
\* elements of the list, one seat each and in their order, with the row and
\* the chair of the element and the status taken exactly when its class
\* holds the word taken, in whatever order each anchor carries its three
\* attributes.
C25_ParseRecoversList ==
    Made =>
        /\ Len(Outcome) = Len(call.elements)
        /\ \A i \in 1..Len(call.elements) :
              i <= Len(Outcome) =>
                  /\ Outcome[i].row = call.elements[i].row
                  /\ Outcome[i].chair = call.elements[i].chair
                  /\ Outcome[i].status = "taken"
                         <=> call.elements[i].class = "seat taken"

----------------------------------------------------------------------------
(* C26: the one-shot search *)

FindNowData(th) == [cmd |-> "find_now", theater_id |-> th, key |-> <<>>]

\* C26: a one-shot search, by a text sent in FindSeatsState or by the
\* find_now button, ends whatever the fetch gives and leaves the mapping
\* with its last groups, the store, the registry and the tasks as they are.
C26_FindLeavesSubscriptions ==
    [][\A c \in Chats :
          /\ \A text \in Texts \ button_commands :
                (user_state[c].tag = "FindSeatsState" /\ handle_message(c, text))
                    => UNCHANGED <<monitored_shows, db_file, monitoring_tasks,
                                   tasks>>
          /\ \A th \in Theaters :
                inline_button_handler(c, FindNowData(th))
                    => UNCHANGED <<monitored_shows, db_file, monitoring_tasks,
                                   tasks>>]_vars

\* A chat that monitors a show, with last groups and a task that sleeps, is
\* about to send the URL of that show for a search.
C26_Witness ==
    \E c \in Chats, t \in Tids :
        /\ user_state[c].tag = "FindSeatsState"
        /\ tasks[t].pc = "sleep"
        /\ tasks[t].key \in DOMAIN monitored_shows
        /\ tasks[t].key[1] = c
        /\ monitoring_tasks[tasks[t].key] = t
        /\ LastGroups(monitored_shows, tasks[t].key) # <<>>

----------------------------------------------------------------------------
(* C27: the end of the setup *)

\* C27: a number n sent by a chat that awaits the ceiling for a show and a
\* min_seats ends the setup: the mapping holds, under the key of chat and
\* show, one show with that min_seats, with the ceiling n (none for 0) and
\* with no last groups, and is otherwise as before; the file holds the
\* mapping; a new task for the key is created and registered; the chat has
\* no pending state.
C27_SetupCreatesSubscription ==
    \A c \in Chats, text \in Texts :
        LET state == user_state[c]
            key   == MakeKey(c, state.temp_theater_id)
            show  == [chat_id               |-> c,
                      theater_id            |-> state.temp_theater_id,
                      min_seats             |-> state.temp_min_seats[1],
                      created_at            |-> Now,
                      last_available_groups |-> <<>>,
                      max_row               |-> IF IntOf(text) = 0 THEN None
                                                ELSE Some(IntOf(text))]
            done  == /\ handle_message(c, text)
                     /\ DOMAIN monitored_shows' = DOMAIN monitored_shows \cup {key}
                     /\ \A k \in DOMAIN monitored_shows' :
                           monitored_shows'[k] =
                               IF k = key THEN show ELSE monitored_shows[k]
                     /\ db_file' = save_db(monitored_shows')
                     /\ key \in DOMAIN monitoring_tasks'
                     /\ tasks'[monitoring_tasks'[key]] =
                            NewTask(state.temp_theater_id,
                                    state.temp_min_seats[1], c, key)
                     /\ \A t \in Tids :
                           (t # monitoring_tasks'[key] /\ tasks'[t].key = key)
                               => ~Able(tasks'[t])
                     /\ user_state'[c] = NoState
        IN  (/\ IsNumber(text)
             /\ state.tag = "MonitorSetupState"
             /\ state.waiting_for = "max_row_setup"
             /\ state.temp_theater_id # ""
             /\ state.temp_min_seats # None
             /\ CanStartTask(key))
            => /\ ENABLED done
               /\ ~ENABLED (handle_message(c, text) /\ ~done)

\* A chat awaits the ceiling of a show it already monitors, with last groups
\* and a task that sleeps.
C27_Witness ==
    \E c \in Chats, t \in Tids :
        /\ user_state[c].tag = "MonitorSetupState"
        /\ user_state[c].waiting_for = "max_row_setup"
        /\ user_state[c].temp_min_seats # None
        /\ tasks[t].key = MakeKey(c, user_state[c].temp_theater_id)
        /\ tasks[t].pc = "sleep"
        /\ tasks[t].key \in DOMAIN monitored_shows
        /\ LastGroups(monitored_shows, tasks[t].key) # <<>>
        /\ CanStartTask(tasks[t].key)

----------------------------------------------------------------------------
(* C28: a show URL after /monitor *)

\* The pending state of chat c is the one /monitor, or the text of the
\* 'Monitor Show' button, leaves: sent again, it changes nothing.
AfterMonitor(c) ==
    \/ ENABLED (monitor_command(c) /\ UNCHANGED vars)
    \/ ENABLED (handle_message(c, "Monitor Show") /\ UNCHANGED vars)

\* C28: when a chat has sent /monitor or pressed 'Monitor Show', a message
\* with a valid show URL makes the chat await the min_seats of that show.
C28_MonitorUrlStartsSetup ==
    [][\A c \in Chats, url \in DOMAIN UrlTable :
          (AfterMonitor(c) /\ handle_message(c, url))
              => user_state'[c] =
                     MonitorSetupState(UrlTable[url], "min_seats", None)]_vars

----------------------------------------------------------------------------
(* C29: a group that comes back *)

\* The task and the mapping when the tick that resumes from the fetch of
\* task has reached its sleep or left the loop, send_message (if it was
\* called) having ended with sent.
TickEnd(task, shows, sent) ==
    LET fetched == AfterFetch(task, shows)
    IN  IF fetched.task.pc = "notify"
        THEN AfterNotify([fetched.task EXCEPT !.result = sent], fetched.shows)
        ELSE fetched

\* No run of groups has the row and the chairs of group.
AbsentFrom(groups, group) ==
    \A i \in 1..Len(groups) : ~SameRun(groups[i], group)

\* send_message is called with a text that lists group.
NotifiedOf(task, group) ==
    /\ task.pc = "notify"
    /\ task.message # None
    /\ \E i \in 1..Len(task.message[1].lines) :
          SameRun(task.message[1].lines[i], group)

\* C29: a task resumes from the fetch of a tick (with no available seat, or
\* with some) and no exception ends it; in its next tick, every group that
\* the grouping of the first tick does not hold is in the text send_message
\* is called with.
C29_ReappearingGroupNotified ==
    \A t \in Tids, sent \in NotifyOutcomes, outcome \in FetchOutcomes :
        LET task   == tasks[t]
            first  == TickEnd(task, monitored_shows, sent)
            again  == [first.task EXCEPT !.pc = "fetch", !.result = outcome]
            second == AfterFetch(again, first.shows)
        IN  (/\ task.pc = "fetch"
             /\ task.result.kind \notin {"pending", "cancelled"}
             /\ task.key \in DOMAIN monitored_shows
             /\ ~TickRaises(task)
             /\ first.task.pc = "sleep"
             /\ ~TickRaises(again))
            => \A i \in 1..Len(TickGroups(again)) :
                  AbsentFrom(TickGroups(task), TickGroups(again)[i])
                      => NotifiedOf(second.task, TickGroups(again)[i])

----------------------------------------------------------------------------
(* C30: the setup of a show the chat already monitors *)

\* The first tick of task, its fetch ending with outcome and neither the
\* fetch nor the grouping raising, calls send_message with a text that lists
\* every group of the grouping.
FirstTickNotifiesAll(task, shows, outcome) ==
    LET fetched == fetch_and_parse_chairmap(outcome)
        found   == find_adjacent_seats(fetched.seats, task.min_seats,
                                       shows[task.key].max_row)
        tick    == AfterFetch([task EXCEPT !.pc = "fetch", !.result = outcome],
                              shows)
    IN  (fetched.raised = "" /\ fetched.seats # <<>> /\ found.raised = "")
            => \A i \in 1..Len(found.groups) :
                  NotifiedOf(tick.task, found.groups[i])

\* A number ends the setup of a show the chat already monitors: the mapping
\* has the same keys, the show under the key is the new one with no last
\* groups, the task that was registered for the key can run no further part
\* of a tick, a new task is registered, and the first tick of the new task
\* reports every group it finds.
C30_SetupReplaces ==
    \A c \in Chats, text \in Texts :
        LET state == user_state[c]
            key   == MakeKey(c, state.temp_theater_id)
            show  == [chat_id               |-> c,
                      theater_id            |-> state.temp_theater_id,
                      min_seats             |-> state.temp_min_seats[1],
                      created_at            |-> Now,
                      last_available_groups |-> <<>>,
                      max_row               |-> MaxRowOf(text)]
            shows == [k \in DOMAIN monitored_shows |->
                         IF k = key THEN show ELSE monitored_shows[k]]
            task  == NewTask(state.temp_theater_id, state.temp_min_seats[1],
                             c, key)
            done  == /\ handle_message(c, text)
                     /\ monitored_shows' = shows
                     /\ key \in DOMAIN monitoring_tasks'
                     /\ tasks'[monitoring_tasks'[key]] = task
                     /\ \A t \in Tids :
                           (t # monitoring_tasks'[key] /\ tasks'[t].key = key)
                               => ~Able(tasks'[t])
        IN  (/\ IsNumber(text)
             /\ state.tag = "MonitorSetupState"
             /\ state.waiting_for = "max_row_setup"
             /\ state.temp_theater_id # ""
             /\ state.temp_min_seats # None
             /\ key \in DOMAIN monitored_shows
             /\ CanStartTask(key))
            => /\ ENABLED done
               /\ ~ENABLED (handle_message(c, text) /\ ~done)
               /\ \A outcome \in FetchOutcomes :
                     FirstTickNotifiesAll(task, shows, outcome)

\* A task that has not run yet finds no last groups on record for its show.
C30_NewTaskStartsEmpty ==
    \A t \in Tids :
        (/\ tasks[t].pc = "created"
         /\ Able(tasks[t])
         /\ tasks[t].key \in DOMAIN monitored_shows)
            => LastGroups(monitored_shows, tasks[t].key) = <<>>

\* C30: completing the setup for a show the chat already monitors replaces
\* the subscription: one show under the key, with no last groups; the old
\* task is cancelled; the new task starts with no last groups on record and
\* its first tick reports every group of its grouping.
C30_ResetupReplacesSubscription ==
    C30_SetupReplaces /\ C30_NewTaskStartsEmpty

\* A chat awaits the ceiling of a show it already monitors, whose task is
\* suspended in send_message with groups to put on record, and whose record
\* holds groups of an earlier tick.
C30_Witness ==
    \E c \in Chats, t \in Tids :
        /\ user_state[c].tag = "MonitorSetupState"
        /\ user_state[c].waiting_for = "max_row_setup"
        /\ user_state[c].temp_min_seats # None
        /\ tasks[t].key = MakeKey(c, user_state[c].temp_theater_id)
        /\ tasks[t].key \in DOMAIN monitored_shows
        /\ tasks[t].key \in DOMAIN monitoring_tasks
        /\ monitoring_tasks[tasks[t].key] = t
        /\ tasks[t].pc = "notify"
        /\ tasks[t].adjacent_groups # <<>>
        /\ LastGroups(monitored_shows, tasks[t].key) # <<>>
        /\ CanStartTask(tasks[t].key)

----------------------------------------------------------------------------
(* C31: the registry and the mapping *)

\* C31: every key of monitoring_tasks is a key of monitored_shows: no task
\* is registered for a key that has no show on record.
C31_RegistryWithinMapping ==
    DOMAIN monitoring_tasks \subseteq DOMAIN monitored_shows

\* A key with a show on record is registered for a new task while an older
\* task of the key, cancelled, has not ended yet.
C31_Witness ==
    \E k \in DOMAIN monitoring_tasks, t \in Tids :
        /\ k \in DOMAIN monitored_shows
        /\ t # monitoring_tasks[k]
        /\ tasks[t].key = k
        /\ Doomed(tasks[t])
        /\ Able(tasks[monitoring_tasks[k]])

----------------------------------------------------------------------------
(* C32: a menu button while an input is awaited *)

\* The texts of the five buttons of get_main_menu_keyboard.
MenuButtons ==
    {"Find Available Seats", "Monitor Show", "My Monitored Shows",
     "Stop Monitoring", "Help"}

\* The pending state a menu button leaves when the chat had none: the two
\* buttons that ask for a URL store FindSeatsState, the others store nothing.
ButtonFromIdle(text) ==
    IF text \in {"Find Available Seats", "Monitor Show"} THEN FindSeatsState
    ELSE NoState

\* The step of handle_message for the text of a button, with the effect it
\* has on a chat with no pending state and on nothing else.
ButtonStep(c, text) ==
    /\ handle_message(c, text)
    /\ user_state'[c] = ButtonFromIdle(text)
    /\ UNCHANGED <<monitored_shows, db_file, monitoring_tasks, tasks>>

\* C32: when a chat is in MonitorSetupState or ChangeMaxRowState and sends
\* the text of a menu button, the pending state is dropped and the button is
\* handled as for a chat with no pending state (which is handled the same
\* way); the mapping, the file, the registry and the tasks stay as they are.
C32_ButtonDiscardsInput ==
    \A c \in Chats, text \in MenuButtons :
        user_state[c].tag \in {"", "MonitorSetupState", "ChangeMaxRowState"}
            => /\ ENABLED ButtonStep(c, text)
               /\ ~ENABLED (handle_message(c, text) /\ ~ButtonStep(c, text))

\* A chat awaits the ceiling that would end the setup of a show it already
\* monitors, with groups on record.
C32_Witness ==
    \E c \in Chats :
        /\ user_state[c].tag = "MonitorSetupState"
        /\ user_state[c].waiting_for = "max_row_setup"
        /\ user_state[c].temp_min_seats # None
        /\ MakeKey(c, user_state[c].temp_theater_id) \in DOMAIN monitored_shows
        /\ MakeKey(c, user_state[c].temp_theater_id) \in DOMAIN monitoring_tasks
        /\ LastGroups(monitored_shows,
                      MakeKey(c, user_state[c].temp_theater_id)) # <<>>
        /\ db_file = save_db(monitored_shows)

====
